---------------------------- MODULE Spec2Model ----------------------------
(***************************************************************************)
(* A model of haytex.Report (src/src/haytex/report.py): a LaTeX report      *)
(* built as a list of lines (report_text) by heading, figure and table      *)
(* operations and written out by save_tex.                                  *)
(*                                                                          *)
(* Text is modelled as a sequence of pieces.  Every piece is a string; the  *)
(* piece "\n" is the newline character, the pieces of caller-supplied text  *)
(* are single characters, and the fixed fragments of the f-strings of the   *)
(* source are one piece each.  A line of report_text is such a sequence,    *)
(* the empty line is << >>.                                                 *)
(***************************************************************************)
EXTENDS Integers, Sequences, FiniteSets, TLC

VARIABLES
    report_text,  \* Report.report_text: the list of lines
    call,         \* the last operation called and its arguments
    before,       \* report_text when the last operation was called
    result,       \* how the last operation ended: "ok" or the exception raised
    fig_list,     \* add_figure's local fig_list when the last call ended
    table_list,   \* add_table's local table_list when the last call ended
    tex_file,     \* contents of <path>/Report.tex in the output directory
    sty_file,     \* contents of <path>/Style.sty in the output directory
    ncalls,       \* number of operations called so far
    history       \* every call so far, the constructor's first: its
                  \* arguments, how it ended and the lines it appended

vars == <<report_text, call, before, result, fig_list, table_list,
          tex_file, sty_file, ncalls, history>>

-----------------------------------------------------------------------------
(* Bounds of the model *)

MaxCalls == 2       \* operations called on one report (Spec)
MaxLongCalls == 3   \* operations called on one report (SpecLong)
MaxFigs == 6        \* length of the figure list given to add_figure
MaxVaried == 3      \* leading items of that list that range over all paths
MaxDim == 3         \* largest cols / rows argument
MaxTableCols == 4   \* columns of the table given to add_table
MaxTableRows == 4   \* rows of the table given to add_table

-----------------------------------------------------------------------------
(* Python values *)

\* Optional[...]: None, or a value
None == {}
Some(x) == {x}
Val(o) == CHOOSE x \in o : TRUE

NL == "\n"

Max(a, b) == IF a >= b THEN a ELSE b
Min(a, b) == IF a <= b THEN a ELSE b

\* s[a:b] of a list or a string, for 0 <= a and 0 <= b
Slice(s, a, b) == SubSeq(s, a + 1, Min(b, Len(s)))

\* s[a:] of a list or a string, for 0 <= a
SliceFrom(s, a) == SubSeq(s, a + 1, Len(s))

\* int(np.ceil(a / b)) for a >= 0 and b # 0
CeilDiv(a, b) == IF b > 0 THEN (a + b - 1) \div b ELSE -(a \div (-b))

\* the concatenation of a list of lists (by halves, to keep the evaluation
\* shallow; the list is bound as a value, to be evaluated once)
RECURSIVE Flatten(_)
Flatten(ss) ==
    LET Halves(s) ==
            IF s = << >> THEN << >>
            ELSE IF Len(s) = 1 THEN s[1]
            ELSE LET h == Len(s) \div 2
                 IN Flatten(SubSeq(s, 1, h)) \o Flatten(SubSeq(s, h + 1, Len(s)))
    IN CHOOSE r \in {Halves(s) : s \in {ss}} : TRUE

\* str(n) of an integer n >= 0, one piece per digit
RECURSIVE Digits(_)
Digits(n) == IF n < 10 THEN <<ToString(n)>>
             ELSE Digits(n \div 10) \o <<ToString(n % 10)>>

\* "\n".join(lines)
Join(lines) ==
    Flatten([i \in 1..Len(lines) |->
                IF i < Len(lines) THEN lines[i] \o <<NL>> ELSE lines[i]])

\* text.split("\n") (by halves, to keep the evaluation shallow; the text is
\* bound as a value, to be evaluated once)
RECURSIVE Split(_)
Split(text) ==
    LET Halves(t) ==
            LET nl == {i \in 1..Len(t) : t[i] = NL}
            IN IF nl = {} THEN <<t>>
               ELSE LET m == CHOOSE i \in nl :
                                 Cardinality({j \in nl : j < i})
                                     = Cardinality(nl) \div 2
                    IN Split(SubSeq(t, 1, m - 1))
                           \o Split(SubSeq(t, m + 1, Len(t)))
    IN CHOOSE r \in {Halves(t) : t \in {text}} : TRUE

-----------------------------------------------------------------------------
(* Report.__init__ *)

\* a scaffold that leaves the \author line out when no author is given
Scaffold_optional_author(title, subtitle, author) ==
    LET head == <<
            <<"\\documentclass[12pt]{book}">>,
            <<"\\usepackage{Style}">>,
            <<"\\usepackage{float}">>,
            <<"\\usepackage{graphicx}">>,
            <<"\\usepackage{pgf}">>,
            <<"\\usepackage{subcaption}">>,
            <<"\\title{">> \o title \o <<"\\\\ \\large ">> \o subtitle \o <<"}">> >>
        tail == <<
            <<"\\begin{document}">>,
            <<"\\maketitle">>,
            <<"\\tableofcontents">> >>
    IN IF author = << >> THEN head \o tail
       ELSE head \o << <<"\\author{">> \o author \o <<"}">> >> \o tail

Scaffold(title, subtitle, author) == <<
    <<"\\documentclass[12pt]{book}">>,
    <<"\\usepackage{Style}">>,
    <<"\\usepackage{float}">>,
    <<"\\usepackage{graphicx}">>,
    <<"\\usepackage{pgf}">>,
    <<"\\usepackage{subcaption}">>,
    <<"\\title{">> \o title \o <<"\\\\ \\large ">> \o subtitle \o <<"}">>,
    <<"\\author{">> \o author \o <<"}">>,
    <<"\\begin{document}">>,
    <<"\\maketitle">>,
    <<"\\tableofcontents">> >>

\* the arguments of a call: every operation fills the fields it has
NoCall == [op |-> "init", title |-> << >>, subtitle |-> << >>,
           author |-> << >>, figs |-> << >>, table |-> << >>,
           cols |-> None, rows |-> None, caption |-> None,
           path |-> "", style_file |-> None]

\* the call just made joins the calls made so far
Record ==
    history' = Append(history,
                      [call |-> call', result |-> result',
                       lines |-> SubSeq(report_text', Len(report_text) + 1,
                                        Len(report_text'))])

-----------------------------------------------------------------------------
(* Headings and page breaks *)

HeadingLine(level, title) == <<"\\" \o level \o "{">> \o title \o <<"}">>

ClearPageLine == <<"\\clearpage">>

-----------------------------------------------------------------------------
(* Report.add_figure *)

\* the characters \w matches, among those the model's texts are made of
WordChars == {"a", "b", "c", "d", "e", "f", "g", "n", "p", "T", "_",
              "0", "1", "2", "3", "4", "5", "6", "7", "8", "9"}

\* file_format_regex.match(graph) for the pattern .*\.([\w]*)$ : None when
\* there is no match, else group(1).  "." matches no newline, "$" matches at
\* the end of the text and before a newline that ends it.
FileFormat(graph) ==
    LET n == Len(graph)
        ends == {n} \cup (IF n > 0 /\ graph[n] = NL THEN {n - 1} ELSE {})
        hits == {m \in (1..n) \X ends :
                    /\ m[1] <= m[2]
                    /\ graph[m[1]] = "."
                    /\ \A k \in 1..(m[1] - 1) : graph[k] # NL
                    /\ \A k \in (m[1] + 1)..m[2] : graph[k] \in WordChars}
    IN IF hits = {} THEN None
       ELSE LET m == CHOOSE h \in hits : \A g \in hits : g[1] <= h[1]
            IN Some(SubSeq(graph, m[1] + 1, m[2]))

\* figs after "if isinstance(figs, str): figs = [figs]"
NormalizeFigs(figs) == IF figs.kind = "str" THEN <<figs.val>> ELSE figs.val

\* cols after "if cols is None: cols = len(figs)"
FigCols(figs, cols) == IF cols = None THEN Len(figs) ELSE Val(cols)

\* rows after "if rows is None: rows = 1"
FigRows(rows) == IF rows = None THEN 1 ELSE Val(rows)

\* RowList with the number of rows rounded down: a short last row is lost
RowList_floor(figs, cols) ==
    LET row_numbers == IF cols > 0 THEN Len(figs) \div cols ELSE 0
    IN [i \in 1..row_numbers |->
           Slice(figs, (i - 1) * cols, i * cols)]

\* row_list: figs split into rows (cols # 0)
RowList(figs, cols) ==
    LET row_numbers == CeilDiv(Len(figs), cols)
    IN [i \in 1..row_numbers |->
           LET row == i - 1
           IN IF (row + 1) * cols < Len(figs)
              THEN Slice(figs, row * cols, (row + 1) * cols)
              ELSE SliceFrom(figs, row * cols)]

\* FigList with the number of figures rounded down: a short last figure is
\* lost
FigList_floor(row_list, rows) ==
    LET fig_total == IF rows > 0 THEN Len(row_list) \div rows ELSE 0
    IN [i \in 1..fig_total |->
           Slice(row_list, (i - 1) * rows, i * rows)]

\* fig_list: row_list split into figures (rows # 0)
FigList(row_list, rows) ==
    LET fig_total == CeilDiv(Len(row_list), rows)
    IN [i \in 1..fig_total |->
           LET fig == i - 1
           IN IF (fig + 1) * rows < Len(row_list)
              THEN Slice(row_list, fig * rows, (fig + 1) * rows)
              ELSE SliceFrom(row_list, fig * rows)]

\* str(np.floor(10 / cols) / 10) for cols >= 1: "1.0", "0.5", "0.3", ...
FigSizing(cols) ==
    LET tenths == 10 \div cols
    IN Digits(tenths \div 10) \o <<".">> \o Digits(tenths % 10)

BeginFigureLine == <<"\\begin{figure}[H]">>
CenteringLine == <<"\\centering">>
EndFigureLine == <<"\\end{figure}">>
BlankLine == << >>
BeginSubfigureLine(fig_sizing) ==
    <<"\\begin{subfigure}{">> \o fig_sizing \o <<"\\textwidth}">>
EndSubfigureLine == <<"\\end{subfigure}">>
InputLine(graph) ==
    <<"\\resizebox{\\linewidth}{!}{\\input{\"">> \o graph \o <<"\"}}">>
IncludeLine(fig_sizing, graph) ==
    <<"\\includegraphics[width=">> \o fig_sizing \o <<"\\textwidth]{">>
        \o graph \o <<"}">>

\* CaptionLine with the bracketed index also on a single float
CaptionLine_always_suffix(caption, index, total) ==
    <<"\\caption{">> \o caption \o <<" ", "[">> \o Digits(index) \o <<"]", "}">>

\* the caption line of float number index out of total
CaptionLine(caption, index, total) ==
    IF total > 1
    THEN <<"\\caption{">> \o caption \o <<" ", "[">> \o Digits(index)
             \o <<"]", "}">>
    ELSE <<"\\caption{">> \o caption \o <<"}">>

\* GraphLines with the subfigure opened and closed before the format is
\* looked at: a graph without a format leaves an empty subfigure
GraphLines_keeps_pair(graph, fig_sizing) ==
    LET file_format == FileFormat(graph)
    IN <<BeginSubfigureLine(fig_sizing)>>
           \o (IF file_format = None THEN << >>
               ELSE IF Val(file_format) = <<"p", "g", "f">>
               THEN <<InputLine(graph)>>
               ELSE <<IncludeLine(fig_sizing, graph)>>)
           \o <<EndSubfigureLine>>

\* the lines of one graph: the body of "for graph in row_graphs"
GraphLines(graph, fig_sizing) ==
    LET file_format == FileFormat(graph)
    IN IF file_format # None
       THEN <<BeginSubfigureLine(fig_sizing),
              IF Val(file_format) = <<"p", "g", "f">>
              THEN InputLine(graph)
              ELSE IncludeLine(fig_sizing, graph),
              EndSubfigureLine>>
       ELSE << >>

\* RowLines with a blank line after every row, the last one of a figure too
RowLines_always_blank(row_index, row_graphs, fig_graphs, fig_sizing) ==
    Flatten([g \in 1..Len(row_graphs) |-> GraphLines(row_graphs[g], fig_sizing)])
        \o <<BlankLine>>

\* the lines of one row: the body of "for row_index, row_graphs in ..."
RowLines(row_index, row_graphs, fig_graphs, fig_sizing) ==
    Flatten([g \in 1..Len(row_graphs) |-> GraphLines(row_graphs[g], fig_sizing)])
        \o (IF row_index # Len(fig_graphs) THEN <<BlankLine>> ELSE << >>)

\* the lines of one figure with the caption put below the closed figure
PageLines_caption_below(fig_index, fig_graphs, total, fig_sizing, caption) ==
    <<BeginFigureLine, CenteringLine>>
        \o Flatten([r \in 1..Len(fig_graphs) |->
                       RowLines(r, fig_graphs[r], fig_graphs, fig_sizing)])
        \o <<EndFigureLine>>
        \o (IF caption # None
            THEN <<CaptionLine(Val(caption), fig_index, total)>>
            ELSE << >>)
        \o (IF total # fig_index THEN <<ClearPageLine>> ELSE << >>)

\* the lines of one figure: the body of "for fig_index, fig_graphs in ..."
PageLines(fig_index, fig_graphs, total, fig_sizing, caption) ==
    <<BeginFigureLine, CenteringLine>>
        \o Flatten([r \in 1..Len(fig_graphs) |->
                       RowLines(r, fig_graphs[r], fig_graphs, fig_sizing)])
        \o (IF caption # None
            THEN <<CaptionLine(Val(caption), fig_index, total)>>
            ELSE << >>)
        \o <<EndFigureLine>>
        \o (IF total # fig_index THEN <<ClearPageLine>> ELSE << >>)

\* all the lines add_figure appends for fig_list
FigureLines(figlist, cols, caption) ==
    Flatten([p \in 1..Len(figlist) |->
                PageLines(p, figlist[p], Len(figlist), FigSizing(cols), caption)])

\* the exception add_figure raises, "ok" when it raises none: the divisions
\* len(figs) / cols and len(row_list) / rows raise ZeroDivisionError
FigureResult(figs, cols, rows) ==
    IF FigCols(NormalizeFigs(figs), cols) = 0 \/ FigRows(rows) = 0
    THEN "ZeroDivisionError"
    ELSE "ok"

\* fig_list as add_figure computes it
FigureFigList(figs, cols, rows) ==
    FigList(RowList(NormalizeFigs(figs), FigCols(NormalizeFigs(figs), cols)),
            FigRows(rows))

add_figure(figs, cols, rows, caption) ==
    /\ call' = [NoCall EXCEPT !.op = "add_figure", !.figs = figs,
                              !.cols = cols, !.rows = rows, !.caption = caption]
    /\ before' = report_text
    /\ result' = FigureResult(figs, cols, rows)
    /\ IF FigureResult(figs, cols, rows) = "ok"
       THEN /\ fig_list' = FigureFigList(figs, cols, rows)
            /\ report_text' = report_text \o
                   FigureLines(fig_list',
                               FigCols(NormalizeFigs(figs), cols), caption)
       ELSE /\ fig_list' = << >>
            /\ report_text' = report_text
    /\ table_list' = << >>
    /\ ncalls' = ncalls + 1
    /\ Record
    /\ UNCHANGED <<tex_file, sty_file>>

-----------------------------------------------------------------------------
(* Report.add_table *)

\* A DataFrame: its column names and its row labels, in order.  The cell of
\* row r and column c holds the text c followed by r.
ColumnNames == <<"A", "B", "C", "D", "E", "F", "G", "H">>
DataFrame(ncols, nrows) ==
    [columns |-> SubSeq(ColumnNames, 1, ncols),
     index |-> [i \in 1..nrows |-> ToString(i - 1)]]

\* table.shape[0] and table.shape[1]
ShapeRows(table) == Len(table.index)
ShapeCols(table) == Len(table.columns)

\* table.iloc[:, a:b] and table.iloc[:, a:]
ILocCols(table, a, b) == [table EXCEPT !.columns = Slice(table.columns, a, b)]
ILocColsFrom(table, a) == [table EXCEPT !.columns = SliceFrom(table.columns, a)]

\* tab.iloc[a:b, :] and tab.iloc[a:, :]
ILocRows(tab, a, b) == [tab EXCEPT !.index = Slice(tab.index, a, b)]
ILocRowsFrom(tab, a) == [tab EXCEPT !.index = SliceFrom(tab.index, a)]

\* tabular.style.to_latex(): the text pandas renders for a DataFrame, a
\* tabular environment with a header row and one row per row of the frame,
\* every line ended by a newline
ToLatex(tabular) ==
    LET cells(r) == Flatten([c \in 1..Len(tabular.columns) |->
                                <<" & ", tabular.columns[c] \o r>>])
        lines == <<<<"\\begin{tabular}{l">>
                       \o [c \in 1..Len(tabular.columns) |-> "r"] \o <<"}">>,
                   Flatten([c \in 1..Len(tabular.columns) |->
                               <<" & ", tabular.columns[c]>>]) \o <<" \\\\">>>>
                 \o [r \in 1..Len(tabular.index) |->
                        <<tabular.index[r]>> \o cells(tabular.index[r])
                            \o <<" \\\\">>]
                 \o <<<<"\\end{tabular}">>>>
    IN Join(lines) \o <<NL>>

\* tabular.style.to_latex().split("\n")[:-1]
TabularLines(tabular) ==
    LET parts == Split(ToLatex(tabular))
    IN SubSeq(parts, 1, Len(parts) - 1)

\* cols after "if cols is None: cols = int(table.shape[1])"
TableCols(table, cols) == IF cols = None THEN ShapeCols(table) ELSE Val(cols)

\* rows after "if rows is None: rows = int(table.shape[0])"
TableRows(table, rows) == IF rows = None THEN ShapeRows(table) ELSE Val(rows)

\* table_list after "Split by columns" (cols # 0 when the table is split)
SplitByColumns(table, cols) ==
    IF ShapeCols(table) > cols
    THEN LET col_numbers == CeilDiv(ShapeCols(table), cols)
         IN [i \in 1..col_numbers |->
                LET col == i - 1
                IN IF (col + 1) * cols < ShapeCols(table)
                   THEN ILocCols(table, col * cols, (col + 1) * cols)
                   ELSE ILocColsFrom(table, col * cols)]
    ELSE <<table>>

\* SplitByRows with the loops swapped: for every row chunk, every table
SplitByRows_rowmajor(table, tablelist, rows) ==
    IF ShapeRows(table) > rows
    THEN LET row_numbers == CeilDiv(ShapeRows(table), rows)
         IN Flatten([i \in 1..row_numbers |->
                [t \in 1..Len(tablelist) |->
                    LET row == i - 1
                    IN IF (row + 1) * rows < ShapeRows(table)
                       THEN ILocRows(tablelist[t], row * rows, (row + 1) * rows)
                       ELSE ILocRowsFrom(tablelist[t], row * rows)]])
    ELSE tablelist

\* table_list after "Split by rows" (rows # 0 when the tables are split)
SplitByRows(table, tablelist, rows) ==
    IF ShapeRows(table) > rows
    THEN LET row_numbers == CeilDiv(ShapeRows(table), rows)
         IN Flatten([t \in 1..Len(tablelist) |->
                [i \in 1..row_numbers |->
                    LET row == i - 1
                    IN IF (row + 1) * rows < ShapeRows(table)
                       THEN ILocRows(tablelist[t], row * rows, (row + 1) * rows)
                       ELSE ILocRowsFrom(tablelist[t], row * rows)]])
    ELSE tablelist

BeginTableLine == <<"\\begin{table}[H]">>
EndTableLine == <<"\\end{table}">>

\* SubTableLines with a blank line after every table, the last one too
SubTableLines_always_blank(index, tabular, total, caption) ==
    <<BeginTableLine, CenteringLine>>
        \o TabularLines(tabular)
        \o (IF caption # None
            THEN <<CaptionLine(Val(caption), index, total)>>
            ELSE << >>)
        \o <<EndTableLine, BlankLine>>

\* the lines of one table: the body of "for index, tabular in ..."
SubTableLines(index, tabular, total, caption) ==
    <<BeginTableLine, CenteringLine>>
        \o TabularLines(tabular)
        \o (IF caption # None
            THEN <<CaptionLine(Val(caption), index, total)>>
            ELSE << >>)
        \o <<EndTableLine>>
        \o (IF index # total THEN <<BlankLine>> ELSE << >>)

\* all the lines add_table appends for table_list
TableLines(tablelist, caption) ==
    Flatten([t \in 1..Len(tablelist) |->
                SubTableLines(t, tablelist[t], Len(tablelist), caption)])

\* the exception add_table raises, "ok" when it raises none: the divisions
\* table.shape[1] / cols and table.shape[0] / rows raise ZeroDivisionError
TableResult(table, cols, rows) ==
    IF \/ ShapeCols(table) > TableCols(table, cols) /\ TableCols(table, cols) = 0
       \/ ShapeRows(table) > TableRows(table, rows) /\ TableRows(table, rows) = 0
    THEN "ZeroDivisionError"
    ELSE "ok"

\* table_list as add_table computes it
TableTableList(table, cols, rows) ==
    SplitByRows(table, SplitByColumns(table, TableCols(table, cols)),
                TableRows(table, rows))

add_table(table, cols, rows, caption) ==
    /\ call' = [NoCall EXCEPT !.op = "add_table", !.table = table,
                              !.cols = cols, !.rows = rows, !.caption = caption]
    /\ before' = report_text
    /\ result' = TableResult(table, cols, rows)
    /\ IF TableResult(table, cols, rows) = "ok"
       THEN /\ table_list' = TableTableList(table, cols, rows)
            /\ report_text' = report_text \o
                   TableLines(table_list', caption)
       ELSE /\ table_list' = << >>
            /\ report_text' = report_text
    /\ fig_list' = << >>
    /\ ncalls' = ncalls + 1
    /\ Record
    /\ UNCHANGED <<tex_file, sty_file>>

-----------------------------------------------------------------------------
(* Report.save_tex *)

EndDocumentLine == <<"\\end{document}">>

\* style_text, the style file save_tex generates
StyleText == <<
    <<"\\usepackage{microtype, color}">>,
    <<"\\usepackage{textcomp}">>,
    <<"\\usepackage{fontspec}">>,
    <<"\\usepackage[margin=0.5in]{geometry}">> >>

\* The file system: the directory "out" exists and can be written to, any
\* other path is a directory that is missing; the style file "my.sty"
\* exists and holds UserStyle, any other style file is missing.
NoFile == {}
UserStyle == <<"\\usepackage{mystyle}">>
PathExists(path) == path = "out"
StyleExists(style_file) == style_file = "my.sty"

\* TexText with every line ended by a newline, the last one too
TexText_trailing(lines) == Join(lines) \o <<NL>>

\* the text tex_file.write("\n".join(self.report_text)) writes
TexText(lines) == Join(lines)

\* the exception save_tex raises, "ok" when it raises none: open() of
\* Report.tex or Style.sty, and shutil.copy, raise FileNotFoundError
SaveResult(path, style_file) ==
    IF ~PathExists(path) THEN "FileNotFoundError"
    ELSE IF style_file # None /\ ~StyleExists(Val(style_file))
         THEN "FileNotFoundError"
         ELSE "ok"

\* save_tex that closes a report once: a buffer that already holds the closing
\* line gets no second one
save_tex_closes_once(path, style_file) ==
    LET closed == IF \E i \in DOMAIN report_text : report_text[i] = EndDocumentLine
                  THEN report_text
                  ELSE Append(report_text, EndDocumentLine)
    IN /\ call' = [NoCall EXCEPT !.op = "save_tex", !.path = path,
                                 !.style_file = style_file]
       /\ before' = report_text
       /\ report_text' = closed
       /\ result' = SaveResult(path, style_file)
       /\ tex_file' = IF PathExists(path) THEN Some(TexText(closed)) ELSE tex_file
       /\ sty_file' = IF SaveResult(path, style_file) # "ok" THEN sty_file
                      ELSE IF style_file # None THEN Some(UserStyle)
                      ELSE Some(Join(StyleText))
       /\ fig_list' = << >>
       /\ table_list' = << >>
       /\ ncalls' = ncalls + 1
       /\ Record

\* save_tex with the style file copied before Report.tex is written: a
\* missing style file leaves Report.tex unwritten
save_tex_copy_first(path, style_file) ==
    /\ call' = [NoCall EXCEPT !.op = "save_tex", !.path = path,
                              !.style_file = style_file]
    /\ before' = report_text
    /\ report_text' = Append(report_text, EndDocumentLine)
    /\ result' = SaveResult(path, style_file)
    /\ tex_file' = IF SaveResult(path, style_file) = "ok"
                   THEN Some(TexText(Append(report_text, EndDocumentLine)))
                   ELSE tex_file
    /\ sty_file' = IF SaveResult(path, style_file) # "ok" THEN sty_file
                   ELSE IF style_file # None THEN Some(UserStyle)
                   ELSE Some(Join(StyleText))
    /\ fig_list' = << >>
    /\ table_list' = << >>
    /\ ncalls' = ncalls + 1
    /\ Record

save_tex(path, style_file) ==
    /\ call' = [NoCall EXCEPT !.op = "save_tex", !.path = path,
                              !.style_file = style_file]
    /\ before' = report_text
    /\ report_text' = Append(report_text, EndDocumentLine)
    /\ result' = SaveResult(path, style_file)
    /\ tex_file' = IF PathExists(path)
                   THEN Some(TexText(Append(report_text, EndDocumentLine)))
                   ELSE tex_file
    /\ sty_file' = IF SaveResult(path, style_file) # "ok" THEN sty_file
                   ELSE IF style_file # None THEN Some(UserStyle)
                   ELSE Some(Join(StyleText))
    /\ fig_list' = << >>
    /\ table_list' = << >>
    /\ ncalls' = ncalls + 1
    /\ Record

-----------------------------------------------------------------------------
(* The inputs the operations are called with *)

RefPgf == <<"a", ".", "p", "g", "f">>    \* "a.pgf"
RefPng == <<"b", ".", "p", "n", "g">>    \* "b.png"
RefBare == <<"c">>                        \* "c": no format suffix
RefDot == <<"d", ".">>                    \* "d.": an empty format suffix
Refs == {RefPgf, RefPng, RefBare, RefDot}

StrFig(ref) == [kind |-> "str", val |-> ref]
ListFigs(refs) == [kind |-> "list", val |-> refs]

\* a list of n paths: the given paths first, then RefPgf, RefPng, RefBare,
\* RefDot in turn
RefCycle == <<RefPgf, RefPng, RefBare, RefDot>>
FigListOf(head, n) ==
    [i \in 1..n |-> IF i <= Len(head) THEN head[i]
                    ELSE RefCycle[((i - 1) % Len(RefCycle)) + 1]]

\* every figs argument: a single path, or a list of up to MaxFigs paths
FigInputs ==
    {StrFig(r) : r \in Refs}
        \cup UNION {{ListFigs(FigListOf(h, n)) :
                        h \in [1..Min(n, MaxVaried) -> Refs]} : n \in 0..MaxFigs}

\* every cols / rows argument: None or an integer, positive or not
DimInputs == {None} \cup {Some(d) : d \in (-1)..MaxDim}

CaptionInputs == {None, Some(<<"T">>)}

TableInputs ==
    {DataFrame(c, r) : c \in 0..MaxTableCols, r \in 0..MaxTableRows}

\* the few inputs the operations are called with when calls are sequenced
StringInputs == {<< >>, <<"a">>}
TitleInputs == {<<"a">>, <<"b", NL>>}
FewFigInputs == {StrFig(RefPgf), ListFigs(<<RefPng, RefBare, RefPgf>>)}
FewDimInputs == {<<None, None>>, <<Some(1), Some(2)>>, <<Some(0), None>>}
FewTableInputs == {DataFrame(2, 3)}
PathInputs == {"out", "nowhere"}
StyleInputs == {None, Some("my.sty"), Some("no.sty")}

-----------------------------------------------------------------------------
(* The operations of a Report *)

Construct(title, subtitle, author) ==
    /\ report_text = Scaffold(title, subtitle, author)
    /\ call = [NoCall EXCEPT !.title = title, !.subtitle = subtitle,
                              !.author = author]
    /\ before = << >>
    /\ result = "ok"
    /\ fig_list = << >>
    /\ table_list = << >>
    /\ tex_file = NoFile
    /\ sty_file = NoFile
    /\ ncalls = 0
    /\ history = <<[call |-> call, result |-> "ok", lines |-> report_text]>>

\* an append that skips a line the buffer already ends with
AppendLine_dedup(op, title, line) ==
    /\ call' = [NoCall EXCEPT !.op = op, !.title = title]
    /\ before' = report_text
    /\ report_text' = IF report_text[Len(report_text)] = line THEN report_text
                      ELSE Append(report_text, line)
    /\ result' = "ok"
    /\ fig_list' = << >>
    /\ table_list' = << >>
    /\ ncalls' = ncalls + 1
    /\ Record
    /\ UNCHANGED <<tex_file, sty_file>>

\* the one line a heading operation or clear_page appends
AppendLine(op, title, line) ==
    /\ call' = [NoCall EXCEPT !.op = op, !.title = title]
    /\ before' = report_text
    /\ report_text' = Append(report_text, line)
    /\ result' = "ok"
    /\ fig_list' = << >>
    /\ table_list' = << >>
    /\ ncalls' = ncalls + 1
    /\ Record
    /\ UNCHANGED <<tex_file, sty_file>>

add_part(title) == AppendLine("add_part", title, HeadingLine("part", title))

add_chapter(title) ==
    AppendLine("add_chapter", title, HeadingLine("chapter", title))

add_section(title) ==
    AppendLine("add_section", title, HeadingLine("section", title))

add_subsection(title) ==
    AppendLine("add_subsection", title, HeadingLine("subsection", title))

add_subsubsection(title) ==
    AppendLine("add_subsubsection", title, HeadingLine("subsubsection", title))

clear_page == AppendLine("clear_page", << >>, ClearPageLine)

-----------------------------------------------------------------------------
(* Spec: a report of any title, and up to MaxCalls operations on it *)

Init ==
    \E title \in StringInputs, subtitle \in StringInputs, author \in StringInputs :
        Construct(title, subtitle, author)

AddPart == ncalls < MaxCalls /\ \E title \in TitleInputs : add_part(title)

AddChapter == ncalls < MaxCalls /\ \E title \in TitleInputs : add_chapter(title)

AddSection == ncalls < MaxCalls /\ \E title \in TitleInputs : add_section(title)

AddSubsection ==
    ncalls < MaxCalls /\ \E title \in TitleInputs : add_subsection(title)

AddSubsubsection ==
    ncalls < MaxCalls /\ \E title \in TitleInputs : add_subsubsection(title)

ClearPage == ncalls < MaxCalls /\ clear_page

AddFigure ==
    /\ ncalls < MaxCalls
    /\ \E figs \in FewFigInputs, dims \in FewDimInputs, caption \in CaptionInputs :
           add_figure(figs, dims[1], dims[2], caption)

AddTable ==
    /\ ncalls < MaxCalls
    /\ \E table \in FewTableInputs, dims \in FewDimInputs,
          caption \in CaptionInputs :
           add_table(table, dims[1], dims[2], caption)

SaveTex ==
    /\ ncalls < MaxCalls
    /\ \E path \in PathInputs, style_file \in StyleInputs :
           save_tex(path, style_file)

Next ==
    \/ AddPart
    \/ AddChapter
    \/ AddSection
    \/ AddSubsection
    \/ AddSubsubsection
    \/ ClearPage
    \/ AddFigure
    \/ AddTable
    \/ SaveTex

Spec == Init /\ [][Next]_vars

-----------------------------------------------------------------------------
(* SpecLayout: one add_figure or add_table call, with any arguments, on a   *)
(* report constructed with the default arguments                            *)

InitLayout == Construct(<< >>, << >>, << >>)

AddFigureAny ==
    /\ ncalls = 0
    /\ \E figs \in FigInputs, cols \in DimInputs, rows \in DimInputs,
          caption \in CaptionInputs :
           add_figure(figs, cols, rows, caption)

AddTableAny ==
    /\ ncalls = 0
    /\ \E table \in TableInputs, cols \in DimInputs, rows \in DimInputs,
          caption \in CaptionInputs :
           add_table(table, cols, rows, caption)

NextLayout == AddFigureAny \/ AddTableAny

SpecLayout == InitLayout /\ [][NextLayout]_vars

-----------------------------------------------------------------------------
(* SpecLong: up to MaxLongCalls operations, each with one or a few          *)
(* arguments, on a report constructed with the default arguments            *)

LongSaveInputs == {<<"out", None>>, <<"out", Some("my.sty")>>,
                   <<"out", Some("no.sty")>>, <<"nowhere", None>>}

LongPart == ncalls < MaxLongCalls /\ add_part(<<"a">>)

LongChapter == ncalls < MaxLongCalls /\ add_chapter(<<"a">>)

LongSection == ncalls < MaxLongCalls /\ add_section(<<"a">>)

LongSubsection == ncalls < MaxLongCalls /\ add_subsection(<<"a">>)

LongSubsubsection == ncalls < MaxLongCalls /\ add_subsubsection(<<"a">>)

LongClearPage == ncalls < MaxLongCalls /\ clear_page

LongFigure ==
    /\ ncalls < MaxLongCalls
    /\ \/ add_figure(StrFig(RefPgf), None, None, None)
       \/ add_figure(ListFigs(<<RefPng, RefBare, RefPgf>>), Some(1), Some(2),
                     Some(<<"T">>))

LongTable ==
    /\ ncalls < MaxLongCalls
    /\ add_table(DataFrame(2, 3), Some(1), Some(2), Some(<<"T">>))

LongSave ==
    /\ ncalls < MaxLongCalls
    /\ \E args \in LongSaveInputs : save_tex(args[1], args[2])

NextLong ==
    \/ LongPart
    \/ LongChapter
    \/ LongSection
    \/ LongSubsection
    \/ LongSubsubsection
    \/ LongClearPage
    \/ LongFigure
    \/ LongTable
    \/ LongSave

SpecLong == InitLayout /\ [][NextLong]_vars

-----------------------------------------------------------------------------
(* What the properties below speak of *)

\* the lines the last operation appended
appended == SubSeq(report_text, Len(before) + 1, Len(report_text))

\* how many lines of seq are the given line
CountLines(seq, line) == Cardinality({i \in DOMAIN seq : seq[i] = line})

\* how many lines of seq start with the given piece
CountStarting(seq, piece) ==
    Cardinality({i \in DOMAIN seq : seq[i] # << >> /\ seq[i][1] = piece})

\* the k-th smallest member of a set of numbers
Nth(S, k) == CHOOSE i \in S : Cardinality({j \in S : j < i}) = k - 1

\* ceil(a / b) for a >= 0 and b >= 1
CeilOf(a, b) == CHOOSE k \in 0..a : (k - 1) * b < a /\ a <= k * b

\* the items, and the maxCols and maxRows in force, of the last add_figure
ArgItems == IF call.figs.kind = "str" THEN <<call.figs.val>> ELSE call.figs.val
ArgCols == IF call.cols = None THEN Len(ArgItems) ELSE Val(call.cols)
ArgRows == IF call.rows = None THEN 1 ELSE Val(call.rows)

\* the last operation is add_figure with maxCols >= 1 and maxRows >= 1
FigureCase == call.op = "add_figure" /\ ArgCols >= 1 /\ ArgRows >= 1

\* the number of rows and of pages the items of the last add_figure make
RowCount == CeilOf(Len(ArgItems), ArgCols)
PageCount == CeilOf(RowCount, ArgRows)

\* the number of rows of page p
RowsOfPage(p) == IF p < PageCount THEN ArgRows
                 ELSE RowCount - (PageCount - 1) * ArgRows

\* where the figure floats begin and end in the appended lines
FigBegins == {i \in DOMAIN appended : appended[i] = <<"\\begin{figure}[H]">>}
FigEnds == {i \in DOMAIN appended : appended[i] = <<"\\end{figure}">>}

-----------------------------------------------------------------------------
(* C1: for items of length n >= 1 and maxCols = c >= 1, maxRows = r >= 1,   *)
(* the pages -> rows -> items partition of add_figure, read page by page,   *)
(* row by row, item by item, is the input sequence; every row but the last  *)
(* has exactly c items and no row is empty; every page but the last has     *)
(* exactly r rows and no page is empty.                                     *)
C1_Partition ==
    (FigureCase /\ Len(ArgItems) >= 1) =>
        LET rowsOf == Flatten(fig_list)
        IN /\ result = "ok"
           /\ Flatten(rowsOf) = ArgItems
           /\ \A i \in DOMAIN rowsOf :
                  /\ Len(rowsOf[i]) >= 1
                  /\ Len(rowsOf[i]) <= ArgCols
                  /\ i < Len(rowsOf) => Len(rowsOf[i]) = ArgCols
           /\ \A p \in DOMAIN fig_list :
                  /\ Len(fig_list[p]) >= 1
                  /\ Len(fig_list[p]) <= ArgRows
                  /\ p < Len(fig_list) => Len(fig_list[p]) = ArgRows

\* a call that makes several pages, the last one short, with a short last row
C1_Witness ==
    /\ FigureCase
    /\ Len(fig_list) >= 2
    /\ ArgRows >= 2
    /\ Len(fig_list[Len(fig_list)]) < ArgRows
    /\ Len(fig_list[Len(fig_list)][1]) < ArgCols

(* C2: for items of length n and maxCols = c >= 1, maxRows = r >= 1, one    *)
(* add_figure call appends exactly P = ceil(ceil(n/c)/r) figure floats: P   *)
(* begin-float lines, P centering lines and P end-float lines, and every    *)
(* begin-float line is immediately followed by a centering line.            *)
C2_FloatCount ==
    FigureCase =>
        /\ result = "ok"
        /\ Cardinality(FigBegins) = PageCount
        /\ CountLines(appended, <<"\\centering">>) = PageCount
        /\ Cardinality(FigEnds) = PageCount
        /\ \A i \in FigBegins :
               i < Len(appended) /\ appended[i + 1] = <<"\\centering">>

\* a call whose last page is short: ceil(n/c) is no multiple of r
C2_Witness ==
    /\ FigureCase
    /\ PageCount >= 2
    /\ RowCount % ArgRows # 0
    /\ Cardinality(FigBegins) = PageCount

CaptionOfPage(text, p, total) ==
    IF total > 1
    THEN <<"\\caption{">> \o text \o <<" ", "[">> \o Digits(p) \o <<"]", "}">>
    ELSE <<"\\caption{">> \o text \o <<"}">>

(* C4: one add_figure call appends pageCount caption lines when a caption   *)
(* is given and none when it is not; the caption line of a page is the line *)
(* before its end-float line; it carries the bracketed 1-based number of    *)
(* the page if and only if pageCount > 1, so that the captions of one call  *)
(* are pairwise distinct, and is the bare caption when pageCount = 1.       *)
C4_Captions ==
    FigureCase =>
        /\ Cardinality(FigEnds) = PageCount
        /\ CountStarting(appended, "\\caption{") =
               IF call.caption = None THEN 0 ELSE PageCount
        /\ call.caption # None =>
               /\ \A p \in 1..PageCount :
                      appended[Nth(FigEnds, p) - 1] =
                          CaptionOfPage(Val(call.caption), p, PageCount)
               /\ \A p, q \in 1..PageCount :
                      p # q => appended[Nth(FigEnds, p) - 1]
                                   # appended[Nth(FigEnds, q) - 1]

\* a captioned call that makes several pages
C4_Witness ==
    /\ FigureCase
    /\ call.caption # None
    /\ PageCount >= 3
    /\ CountStarting(appended, "\\caption{") = PageCount

-----------------------------------------------------------------------------
(* The sub-item lines of the appended lines, each reduced to what it is:    *)
(* <<"begin">>, <<"end">>, <<"input">> \o item or <<"include">> \o item      *)

IsSubItemLine(line) ==
    /\ line # << >>
    /\ line[1] \in {"\\begin{subfigure}{", "\\end{subfigure}",
                    "\\resizebox{\\linewidth}{!}{\\input{\"",
                    "\\includegraphics[width="}

SubItemKind(line) ==
    IF line[1] = "\\begin{subfigure}{" THEN <<"begin">>
    ELSE IF line[1] = "\\end{subfigure}" THEN <<"end">>
    ELSE IF line[1] = "\\includegraphics[width="
    THEN LET k == CHOOSE j \in DOMAIN line : line[j] = "\\textwidth]{"
         IN <<"include">> \o SubSeq(line, k + 1, Len(line) - 1)
    ELSE <<"input">> \o SubSeq(line, 2, Len(line) - 1)

SubItemKinds ==
    LET sel == SelectSeq(appended, IsSubItemLine)
    IN [i \in DOMAIN sel |-> SubItemKind(sel[i])]

\* the item ends with a format token: a "." and then word characters only
HasFormat(item) ==
    \E i \in DOMAIN item :
        item[i] = "." /\ \A k \in (i + 1)..Len(item) : item[k] \in WordChars

\* the item ends with the format token pgf
HasPgfFormat(item) ==
    Len(item) >= 4 /\ SubSeq(item, Len(item) - 3, Len(item)) = <<".", "p", "g", "f">>

\* begin-subitem, embed line, end-subitem of an item that has a format
SubItemOf(item) ==
    <<<<"begin">>,
      IF HasPgfFormat(item) THEN <<"input">> \o item ELSE <<"include">> \o item,
      <<"end">>>>

(* C5, as claimed: every item of the input has one begin-subitem /          *)
(* end-subitem pair, in input order; an item with a format token has one    *)
(* embed line between them (resize+input for pgf, scale+include for any     *)
(* other token), an item without a format token has the pair with no embed  *)
(* line between.                                                            *)
C5_PairPerItem ==
    FigureCase =>
        SubItemKinds =
            Flatten([i \in DOMAIN ArgItems |->
                        IF HasFormat(ArgItems[i]) THEN SubItemOf(ArgItems[i])
                        ELSE <<<<"begin">>, <<"end">>>>])

(* C5, amended: every item of the input that ends with a format token has   *)
(* one begin-subitem, embed line, end-subitem triple, in input order        *)
(* (resize+input for pgf, scale+include for any other token); an item       *)
(* without a format token is skipped whole: no begin-subitem, no embed line *)
(* and no end-subitem is appended for it.                                   *)
C5_PairPerFormattedItem ==
    FigureCase =>
        SubItemKinds =
            Flatten([i \in DOMAIN ArgItems |->
                        IF HasFormat(ArgItems[i]) THEN SubItemOf(ArgItems[i])
                        ELSE << >>])

\* a call with an item of format pgf, one of another format and one of none
C5_Witness ==
    /\ FigureCase
    /\ \E i, j, k \in DOMAIN ArgItems :
           /\ HasPgfFormat(ArgItems[i])
           /\ HasFormat(ArgItems[j]) /\ ~HasPgfFormat(ArgItems[j])
           /\ ~HasFormat(ArgItems[k])
    /\ Len(SubItemKinds) = 6

(* C6: with maxCols and maxRows both unset, add_figure raises no error for  *)
(* any input (a single reference, a sequence of any length, the empty one   *)
(* included) and behaves as maxCols = |items|, maxRows = 1: at most one     *)
(* float, all items in one row, no blank line, no page-break line, and a    *)
(* given caption once and without a suffix.                                 *)
C6_Defaults ==
    (call.op = "add_figure" /\ call.cols = None /\ call.rows = None) =>
        /\ result = "ok"
        /\ Cardinality(FigBegins) <= 1
        /\ Len(fig_list) <= 1
        /\ \A p \in DOMAIN fig_list : fig_list[p] = <<ArgItems>>
        /\ CountLines(appended, << >>) = 0
        /\ CountLines(appended, <<"\\clearpage">>) = 0
        /\ call.caption # None =>
               /\ CountStarting(appended, "\\caption{") = 1
               /\ CountLines(appended,
                             <<"\\caption{">> \o Val(call.caption) \o <<"}">>) = 1

-----------------------------------------------------------------------------
(* The last add_table call *)

\* the columns C and rows R of the table, and the maxCols and maxRows in force
ArgTableCols == Len(call.table.columns)
ArgTableRows == Len(call.table.index)
ArgMaxCols == IF call.cols = None THEN ArgTableCols ELSE Val(call.cols)
ArgMaxRows == IF call.rows = None THEN ArgTableRows ELSE Val(call.rows)

\* the last operation is add_table with maxCols >= 1 and maxRows >= 1
TableCase == call.op = "add_table" /\ ArgMaxCols >= 1 /\ ArgMaxRows >= 1

\* where the column-groups start in table_list: where the columns change
GroupStarts ==
    {k \in DOMAIN table_list :
        k = 1 \/ table_list[k].columns # table_list[k - 1].columns}
GroupFirst(g) == Nth(GroupStarts, g)
GroupLast(g) == IF g < Cardinality(GroupStarts) THEN Nth(GroupStarts, g + 1) - 1
                ELSE Len(table_list)

\* where the table floats end in the appended lines
TabEnds == {i \in DOMAIN appended : appended[i] = <<"\\end{table}">>}

(* C7: for a table of C columns and R rows and maxCols = c >= 1, maxRows =  *)
(* r >= 1, the sub-tables of add_table come column-group by column-group:   *)
(* the column-groups, in order, are consecutive slices of at most c columns *)
(* that together are the C columns, and within each column-group the        *)
(* row-chunks, in order, are consecutive slices of at most r rows that      *)
(* together are the R rows; so every row-chunk of column-group i comes      *)
(* before any row-chunk of column-group i + 1.                              *)
C7_TablePartition ==
    TableCase =>
        /\ result = "ok"
        /\ Len(table_list) >= 1
        /\ Flatten([g \in 1..Cardinality(GroupStarts) |->
                       table_list[GroupFirst(g)].columns]) = call.table.columns
        /\ \A g \in 1..Cardinality(GroupStarts) :
               Flatten([k \in 1..(GroupLast(g) - GroupFirst(g) + 1) |->
                           table_list[GroupFirst(g) + k - 1].index])
                   = call.table.index
        /\ \A k \in DOMAIN table_list :
               /\ Len(table_list[k].columns) <= ArgMaxCols
               /\ Len(table_list[k].index) <= ArgMaxRows

\* a table split into several column-groups of several row-chunks each, the
\* last group narrower and the last chunk shorter than the others
C7_Witness ==
    /\ TableCase
    /\ Cardinality(GroupStarts) >= 2
    /\ GroupLast(1) >= 2
    /\ Len(table_list[Len(table_list)].columns) < ArgMaxCols
    /\ Len(table_list[Len(table_list)].index) < ArgMaxRows

\* what C8 says of the lines appended for S sub-tables
TableFloats(S) ==
    /\ CountLines(appended, <<"\\begin{table}[H]">>) = S
    /\ CountLines(appended, <<"\\centering">>) = S
    /\ Cardinality(TabEnds) = S
    /\ CountLines(appended, << >>) = S - 1
    /\ \A k \in 1..S :
           IF k < S
           THEN /\ appended[Nth(TabEnds, k) + 1] = << >>
                /\ appended[Nth(TabEnds, k) + 2] = <<"\\begin{table}[H]">>
           ELSE Nth(TabEnds, k) = Len(appended)
    /\ CountStarting(appended, "\\caption{") =
           IF call.caption = None THEN 0 ELSE S
    /\ call.caption # None =>
           \A k \in 1..S :
               appended[Nth(TabEnds, k) - 1] =
                   CaptionOfPage(Val(call.caption), k, S)

(* C8, as claimed: for every table of C columns and R rows and maxCols =    *)
(* c >= 1, maxRows = r >= 1, add_table appends S = ceil(C/c) * ceil(R/r)    *)
(* table floats (S begin-table, centering and end-table lines), S - 1       *)
(* blank lines, one after every end-table but the last, and with a caption  *)
(* S caption lines, numbered in brackets if and only if S > 1.              *)
C8_TableCount ==
    TableCase =>
        TableFloats(CeilOf(ArgTableCols, ArgMaxCols)
                        * CeilOf(ArgTableRows, ArgMaxRows))

(* C8, amended: the same for every table of C >= 1 columns and R >= 1 rows. *)
C8_NonEmptyTableCount ==
    (TableCase /\ ArgTableCols >= 1 /\ ArgTableRows >= 1) =>
        TableFloats(CeilOf(ArgTableCols, ArgMaxCols)
                        * CeilOf(ArgTableRows, ArgMaxRows))

\* a captioned table split by columns and by rows
C8_Witness ==
    /\ TableCase
    /\ call.caption # None
    /\ ArgTableCols > ArgMaxCols
    /\ ArgTableRows > ArgMaxRows
    /\ Cardinality(TabEnds) >= 4

\* cols or rows is given and is zero or negative
NonPositive(arg) == arg # None /\ Val(arg) <= 0

(* C9: every add_figure or add_table call with a non-positive maxCols or    *)
(* maxRows fails at once with InvalidArgument and leaves the buffer as it   *)
(* was before the call.                                                     *)
C9_InvalidArgument ==
    (/\ call.op \in {"add_figure", "add_table"}
     /\ NonPositive(call.cols) \/ NonPositive(call.rows)) =>
        /\ result = "InvalidArgument"
        /\ report_text = before

-----------------------------------------------------------------------------
(* The last save_tex call *)

\* the last operation is a save_tex that raised nothing
SaveCase == call.op = "save_tex" /\ result = "ok"

\* no line of the buffer holds a newline character
NoNewline(lines) ==
    \A i \in DOMAIN lines : \A k \in DOMAIN lines[i] : lines[i][k] # NL

\* Report.tex, split on the newline character, is the lines the buffer held
\* when save_tex was called and then the closing line
RoundTrip ==
    /\ tex_file # NoFile
    /\ Split(Val(tex_file)) = before \o <<<<"\\end{document}">>>>

(* C10, as claimed: for every buffer that construct, heading, page-break,   *)
(* add_figure and add_table operations can make, a successful save_tex      *)
(* writes a Report.tex that, split on the newline character, is exactly the *)
(* lines the buffer held when save_tex was called followed by the closing   *)
(* line: as many lines, in the same order, blank lines included.            *)
C10_RoundTrip == SaveCase => RoundTrip

(* C10, amended: the same for every such buffer none of whose lines holds a *)
(* newline character.                                                       *)
C10_RoundTripNoNewline == (SaveCase /\ NoNewline(before)) => RoundTrip

\* a successful save_tex of a buffer that holds blank separator lines
C10_Witness ==
    /\ SaveCase
    /\ NoNewline(before)
    /\ Len(before) > 11
    /\ \E i \in DOMAIN before : before[i] = << >>
    /\ Len(Split(Val(tex_file))) = Len(before) + 1

-----------------------------------------------------------------------------
(* C11: a save_tex that fails raises its I/O error to the caller and leaves *)
(* the buffer as it was before the call plus the closing line; Report.tex   *)
(* is written before Style.sty, so when writing Report.tex fails Style.sty  *)
(* is not written, and when copying the style file fails Report.tex has     *)
(* been written in full and stays.                                          *)
C11_FailedSave ==
    [][(call'.op = "save_tex" /\ result' # "ok") =>
           /\ result' = "FileNotFoundError"
           /\ report_text' = Append(report_text, <<"\\end{document}">>)
           /\ sty_file' = sty_file
           /\ IF PathExists(call'.path)
              THEN tex_file' = Some(Join(report_text'))
              ELSE tex_file' = tex_file]_vars

\* a save_tex that failed on the style file after it wrote Report.tex
C11_Witness ==
    /\ call.op = "save_tex"
    /\ result = "FileNotFoundError"
    /\ PathExists(call.path)
    /\ call.style_file # None
    /\ tex_file = Some(Join(report_text))
    /\ sty_file = NoFile

-----------------------------------------------------------------------------
\* the operations that append one heading line or one page-break line
HeadingOps == {"add_part", "add_chapter", "add_section", "add_subsection",
               "add_subsubsection"}
LineOps == HeadingOps \cup {"clear_page"}

\* the LaTeX command that opens the heading of each level
LevelCommand(op) ==
    CASE op = "add_part" -> "\\part{"
      [] op = "add_chapter" -> "\\chapter{"
      [] op = "add_section" -> "\\section{"
      [] op = "add_subsection" -> "\\subsection{"
      [] op = "add_subsubsection" -> "\\subsubsection{"

\* the line a heading or page-break call is to append, from its level and title
LineOfCall(c) ==
    IF c.op = "clear_page" THEN <<"\\clearpage">>
    ELSE <<LevelCommand(c.op)>> \o c.title \o <<"}">>

\* the first call made, the construction of the report
Constructed == history[1].call

\* every call since the construction is a heading or a page break
OnlyLineCalls == \A i \in 2..Len(history) : history[i].call.op \in LineOps

(* C12: the constructor leaves exactly 11 scaffold lines for every title,   *)
(* subtitle and author, the empty ones included; after k heading or         *)
(* page-break calls, of any levels in any order, none of them rejected, the *)
(* buffer is those 11 lines and then one line per call, in call order, each *)
(* made of the level and the title of its call only.                        *)
C12_ScaffoldThenLines ==
    OnlyLineCalls =>
        /\ Len(report_text) = 11 + (Len(history) - 1)
        /\ report_text[1] = <<"\\documentclass[12pt]{book}">>
        /\ report_text[2] = <<"\\usepackage{Style}">>
        /\ report_text[3] = <<"\\usepackage{float}">>
        /\ report_text[4] = <<"\\usepackage{graphicx}">>
        /\ report_text[5] = <<"\\usepackage{pgf}">>
        /\ report_text[6] = <<"\\usepackage{subcaption}">>
        /\ report_text[7] = <<"\\title{">> \o Constructed.title
                              \o <<"\\\\ \\large ">> \o Constructed.subtitle
                              \o <<"}">>
        /\ report_text[8] = <<"\\author{">> \o Constructed.author \o <<"}">>
        /\ report_text[9] = <<"\\begin{document}">>
        /\ report_text[10] = <<"\\maketitle">>
        /\ report_text[11] = <<"\\tableofcontents">>
        /\ \A i \in 2..Len(history) :
               /\ history[i].result = "ok"
               /\ report_text[11 + (i - 1)] = LineOfCall(history[i].call)

\* a report with a title and no author, a subsubsection added before a part
C12_Witness ==
    /\ Len(history) = 3
    /\ Constructed.title = <<"a">>
    /\ Constructed.author = << >>
    /\ history[2].call.op = "add_subsubsection"
    /\ history[3].call.op = "add_part"
    /\ history[2].call.title # history[3].call.title
    /\ Len(report_text) = 13

-----------------------------------------------------------------------------
(* C13: every call of a heading operation, clear_page, add_figure,          *)
(* add_table or save_tex, whether it returns or raises, leaves the buffer   *)
(* it found as a prefix of the buffer it leaves; and what a call appends    *)
(* and how it ends follow from its arguments alone: it appends the lines,   *)
(* and ends the way, of every earlier call with the same arguments,         *)
(* whatever the buffer held then.                                           *)
C13_AppendOnly ==
    [][/\ Len(report_text) <= Len(report_text')
       /\ SubSeq(report_text', 1, Len(report_text)) = report_text
       /\ \A i \in 2..Len(history) :
              history[i].call = call' =>
                  /\ history[i].lines =
                         SubSeq(report_text', Len(report_text) + 1,
                                Len(report_text'))
                  /\ history[i].result = result']_vars

\* the same call made twice in a row, raising both times after it appended,
\* and the lines of both calls at the end of the buffer
C13_Witness ==
    /\ Len(history) = 3
    /\ history[2].call = history[3].call
    /\ history[3].result # "ok"
    /\ history[3].lines # << >>
    /\ report_text = history[1].lines \o history[2].lines \o history[3].lines

-----------------------------------------------------------------------------
\* what a line of the buffer is, as far as the nesting of floats goes
LineKind(line) ==
    IF line = << >> THEN "blank"
    ELSE IF line = <<"\\begin{figure}[H]">> THEN "begin_figure"
    ELSE IF line = <<"\\end{figure}">> THEN "end_figure"
    ELSE IF line = <<"\\begin{table}[H]">> THEN "begin_table"
    ELSE IF line = <<"\\end{table}">> THEN "end_table"
    ELSE IF line = <<"\\clearpage">> THEN "clearpage"
    ELSE IF line[1] = "\\begin{subfigure}{" THEN "begin_subfigure"
    ELSE IF line = <<"\\end{subfigure}">> THEN "end_subfigure"
    ELSE IF line[1] = "\\caption{" THEN "caption"
    ELSE IF line[1] \in {"\\part{", "\\chapter{", "\\section{",
                         "\\subsection{", "\\subsubsection{"} THEN "heading"
    ELSE "other"

KindAt(i) == LineKind(report_text[i])

FloatMarks == {"begin_figure", "end_figure", "begin_table", "end_table"}
EndOf(kind) == IF kind = "begin_figure" THEN "end_figure" ELSE "end_table"

\* the largest member of a non-empty set of numbers
LastOf(S) == CHOOSE i \in S : \A j \in S : j <= i
FirstOf(S) == CHOOSE i \in S : \A j \in S : i <= j

\* line i lies strictly inside a float opened by a line of kind begin: the
\* last begin-float or end-float line before it is such a begin line
InsideFloat(i, begin) ==
    LET marks == {j \in 1..(i - 1) : KindAt(j) \in FloatMarks}
    IN marks # {} /\ KindAt(LastOf(marks)) = begin

\* the buffer lines the i-th call appended
FirstLineOf(i) == Len(Flatten([j \in 1..(i - 1) |-> history[j].lines])) + 1
LinesOfCall(i) == FirstLineOf(i)..(FirstLineOf(i) + Len(history[i].lines) - 1)

\* maxCols and maxRows in force in an add_figure or add_table call
CallMaxCols(c) ==
    IF c.cols # None THEN Val(c.cols)
    ELSE IF c.op = "add_table" THEN Len(c.table.columns)
    ELSE IF c.figs.kind = "str" THEN 1
    ELSE Len(c.figs.val)
CallMaxRows(c) ==
    IF c.rows # None THEN Val(c.rows)
    ELSE IF c.op = "add_table" THEN Len(c.table.index)
    ELSE 1

\* every call since the construction is a heading, a page break, or an
\* add_figure or add_table with maxCols >= 1 and maxRows >= 1
OnlyContentCalls ==
    \A i \in 2..Len(history) :
        \/ history[i].call.op \in LineOps
        \/ /\ history[i].call.op \in {"add_figure", "add_table"}
           /\ CallMaxCols(history[i].call) >= 1
           /\ CallMaxRows(history[i].call) >= 1

(* C14: after any sequence of heading, clear_page, add_figure and add_table *)
(* calls with maxCols >= 1 and maxRows >= 1 the floats of the buffer are    *)
(* well nested: after a \begin{figure} or \begin{table} line, the first     *)
(* line that opens or closes a float, is a heading or is a \clearpage is    *)
(* the \end of that kind; after a \begin{subfigure} the first line that     *)
(* opens or closes a subfigure closes it; every subfigure line, blank line  *)
(* and caption line add_figure appended lies inside a figure float, every   *)
(* other caption line inside a table float; no float has two captions.      *)
C14_WellNested ==
    OnlyContentCalls =>
        LET n == Len(report_text)
            stops == {j \in 1..n : KindAt(j) \in
                                   FloatMarks \cup {"heading", "clearpage"}}
            subs == {j \in 1..n : KindAt(j) \in
                                  {"begin_subfigure", "end_subfigure"}}
        IN /\ \A b \in 1..n :
                  KindAt(b) \in {"begin_figure", "begin_table"} =>
                      LET after == {j \in stops : j > b}
                      IN /\ after # {}
                         /\ KindAt(FirstOf(after)) = EndOf(KindAt(b))
                         /\ Cardinality({j \in (b + 1)..(FirstOf(after) - 1) :
                                            KindAt(j) = "caption"}) <= 1
           /\ \A e \in 1..n :
                  KindAt(e) \in {"end_figure", "end_table"} =>
                      InsideFloat(e, IF KindAt(e) = "end_figure"
                                     THEN "begin_figure" ELSE "begin_table")
           /\ \A b \in 1..n :
                  KindAt(b) = "begin_subfigure" =>
                      LET after == {j \in subs : j > b}
                      IN after # {} /\ KindAt(FirstOf(after)) = "end_subfigure"
           /\ \A i \in 2..Len(history) :
                  \A j \in LinesOfCall(i) :
                      IF history[i].call.op = "add_figure"
                      THEN KindAt(j) \in {"begin_subfigure", "end_subfigure",
                                          "blank", "caption"}
                               => InsideFloat(j, "begin_figure")
                      ELSE /\ KindAt(j) = "caption"
                               => InsideFloat(j, "begin_table")
                           /\ KindAt(j) \notin {"begin_subfigure",
                                                "end_subfigure"}

\* a captioned figure of two pages, the first of two rows, then a heading,
\* then a captioned table split into several sub-tables
C14_Witness ==
    /\ OnlyContentCalls
    /\ Len(history) = 4
    /\ history[2].call.op = "add_figure"
    /\ Cardinality({j \in LinesOfCall(2) : KindAt(j) = "begin_figure"}) = 2
    /\ Cardinality({j \in LinesOfCall(2) : KindAt(j) = "caption"}) = 2
    /\ \E j \in LinesOfCall(2) : KindAt(j) = "blank"
    /\ \E j \in LinesOfCall(2) : KindAt(j) = "clearpage"
    /\ history[3].call.op \in HeadingOps
    /\ history[4].call.op = "add_table"
    /\ Cardinality({j \in LinesOfCall(4) : KindAt(j) = "begin_table"}) > 1
    /\ \E j \in LinesOfCall(4) : KindAt(j) = "caption"

-----------------------------------------------------------------------------
\* the save_tex calls made so far, and those of them that wrote Report.tex
SaveCalls == {i \in 2..Len(history) : history[i].call.op = "save_tex"}
WrittenCalls == {i \in SaveCalls : PathExists(history[i].call.path)}

\* how many of the lines are the closing line
Markers(lines) == CountLines(lines, <<"\\end{document}">>)

\* the lines of Report.tex as it stands
ArtifactLines == Split(Val(tex_file))

\* k save_tex calls, failed ones included, leave k closing lines in the
\* buffer, one per call
OneMarkerPerSave ==
    /\ Markers(report_text) = Cardinality(SaveCalls)
    /\ \A s \in SaveCalls : history[s].lines = <<<<"\\end{document}">>>>

\* a Report.tex that was written ends with the closing line
ArtifactEndsClosed ==
    tex_file # NoFile => ArtifactLines[Len(ArtifactLines)] = <<"\\end{document}">>

\* after a save_tex every operation can still be called, and the calls made
\* since then have put their lines after the closing line
StillOpen ==
    /\ (SaveCalls # {} /\ ncalls < MaxLongCalls) =>
           /\ ENABLED LongPart
           /\ ENABLED LongChapter
           /\ ENABLED LongSection
           /\ ENABLED LongSubsection
           /\ ENABLED LongSubsubsection
           /\ ENABLED LongClearPage
           /\ ENABLED LongFigure
           /\ ENABLED LongTable
           /\ ENABLED LongSave
    /\ \A s \in SaveCalls :
           /\ report_text[FirstLineOf(s)] = <<"\\end{document}">>
           /\ \A i \in (s + 1)..Len(history) :
                  /\ history[i].lines # << >>
                  /\ history[i].call.op # "save_tex" => history[i].result = "ok"
                  /\ FirstLineOf(i) > FirstLineOf(s)
                  /\ \A j \in LinesOfCall(i) :
                         report_text[j] = history[i].lines[j - FirstLineOf(i) + 1]

(* C15, as claimed: save_tex closes nothing: after k save_tex calls, failed *)
(* or not, the buffer holds exactly k closing lines; a Report.tex that is   *)
(* written ends with the closing line; every operation can be called after  *)
(* a save_tex and appends after the closing line; and the j-th Report.tex   *)
(* written holds j closing lines.                                           *)
C15_NoClosedState ==
    /\ OneMarkerPerSave
    /\ ArtifactEndsClosed
    /\ StillOpen
    /\ tex_file # NoFile => Markers(ArtifactLines) = Cardinality(WrittenCalls)

(* C15, amended: the same, but the Report.tex written by the j-th save_tex  *)
(* call, the failed calls counted too, holds j closing lines.               *)
C15_NoClosedStatePerCall ==
    /\ OneMarkerPerSave
    /\ ArtifactEndsClosed
    /\ StillOpen
    /\ tex_file # NoFile =>
           Markers(ArtifactLines) =
               Cardinality({s \in SaveCalls : s <= LastOf(WrittenCalls)})

\* a save_tex into a missing directory, then a heading, then a save_tex that
\* writes a Report.tex with two closing lines and the heading between them
C15_Witness ==
    /\ Len(history) = 4
    /\ history[2].call.op = "save_tex"
    /\ history[2].result = "FileNotFoundError"
    /\ ~PathExists(history[2].call.path)
    /\ history[3].call.op \in HeadingOps
    /\ history[4].call.op = "save_tex"
    /\ history[4].result = "ok"
    /\ Markers(ArtifactLines) = 2
    /\ ArtifactLines[Len(ArtifactLines) - 1] = LineOfCall(history[3].call)

====
